---- MODULE Spec2Model ----
(***************************************************************************)
(* Model of src/app.py: the Flask application that streams video frames,   *)
(* counts gunny bags per frame, keeps a rolling count history and serves   *)
(* a count-update event stream and a source selector.                      *)
(*                                                                         *)
(* The server runs with threaded=True (app.py:238): every request is a     *)
(* thread.  A step of the model is one access of a thread to the shared    *)
(* state (current_video_source, detection_history, the model's tracker,    *)
(* the clock); statements that touch only the thread's own locals are      *)
(* folded into the neighbouring step.                                      *)
(*                                                                         *)
(* Four specifications share the actions:                                  *)
(*   Spec        video streams and change_source requests;                 *)
(*   SpecFeeds   video streams and a count-update stream;                  *)
(*   SpecSingle  one video stream on a long source, from an empty history; *)
(*   SpecCount   one video stream, over every list of detected boxes.      *)
(* The count-update stream writes no shared state and the requests write   *)
(* only current_video_source, which a stream reads in get_video_source     *)
(* alone, so Spec leaves the former out and SpecFeeds the latter.          *)
(***************************************************************************)
EXTENDS Integers, Sequences, FiniteSets, TLC

\* ------------------------------------------------------------------ bounds
NumStreams == 2      \* /video_feed requests
NumRequests == 2     \* POST /change_source requests
MaxFrames == 2       \* frames a source delivers in SpecFeeds and SpecCount
SelectFrames == 1    \* frames a source delivers in Spec
LongFrames == 102    \* frames the source delivers in SpecSingle
MaxBoxes == 4        \* detections in one frame
MaxClassId == 2      \* class ids are 0..MaxClassId

\* ------------------------------------------------------- program constants
gunny_bag_class_id == 0
HistoryCap == 100

Streams == 1..NumStreams
Requests == 1..NumRequests
ClassIds == 0..MaxClassId

\* The values a client posts as "source".
Sources == {"webcam", "rtsp", "sample.mp4"}

VARIABLES
    current_video_source,   \* app.py:26
    detection_history,      \* app.py:25, a sequence of <<timestamp, count>>
    now,                    \* the clock time.time() reads
    tracker,                \* the streams whose tracks model (app.py:20) holds
    boxes,                  \* the class ids the detector finds in odd frames
    limit,                  \* frames a source delivers before reads fail
    pc, cap, frame, results, current_count, timestamp, parts, exit, prev,
    cpc, count, seen, msg,
    rpc, data, resp

svars == <<pc, cap, frame, results, current_count, timestamp, parts, exit,
          prev>>
cvars == <<cpc, count, seen, msg>>
rvars == <<rpc, data, resp>>
vars == <<current_video_source, detection_history, now, tracker, boxes,
          limit, svars, cvars, rvars>>

\* ------------------------------------------------------------ frame source
\* The local timestamp of a stream that has not reached line 48 yet.
Unstamped == -1000

NoCap == [target |-> "", opened |-> FALSE, released |-> FALSE, pos |-> 0]

Camera == "camera:0"
RtspUrl == "rtsp://your_cctv_feed"

\* os.path.join(os.getcwd(), name)
PathJoin(name) == "cwd/" \o name

\* cv2.VideoCapture(target): a handle, opened or not.
VideoCapture(target, ok) ==
    [target |-> target, opened |-> ok, released |-> FALSE, pos |-> 0]

\* The class ids of the boxes the detector returns for frame i of a source:
\* r.cls of every r in results[0].boxes, a class index, so that int(r.cls) is
\* that index.
Detect(i) == IF i % 2 = 1 THEN boxes ELSE <<gunny_bag_class_id>>

\* ----------------------------------------------------------- pure functions
\* Mutant of CountBags: every box counts, whatever its class.
CountAllBoxes(bs) == Len(bs)

RECURSIVE CountFrom(_, _)
CountFrom(bs, i) ==
    IF i > Len(bs) THEN 0
    ELSE (IF bs[i] = gunny_bag_class_id THEN 1 ELSE 0) + CountFrom(bs, i + 1)

\* sum(1 for r in results[0].boxes if int(r.cls) == gunny_bag_class_id)
CountBags(bs) == CountFrom(bs, 1)

\* f"Gunny Bags: {current_count}"
Overlay(n) == "Gunny Bags: " \o ToString(n)

\* f"data: {count}\n\n"
Message(n) == "data: " \o ToString(n) \o "\n\n"

\* data.get('source', 'webcam')
EmptyDict == [k \in {} |-> ""]
Get(d) == IF "source" \in DOMAIN d THEN d["source"] ELSE "webcam"

\* ------------------------------------------------------------------- Init
\* A full history left by streams that ended earlier (stream 0 of the
\* tracker), with samples older than now.
PastHistory == [i \in 1..HistoryCap |-> <<i - HistoryCap - 1, 0>>]

InitLocals ==
    /\ now = 0
    /\ pc = [s \in Streams |-> "start"]
    /\ cap = [s \in Streams |-> NoCap]
    /\ frame = [s \in Streams |-> 0]
    /\ results = [s \in Streams |-> [boxes |-> <<>>, prior |-> {}]]
    /\ current_count = [s \in Streams |-> 0]
    /\ timestamp = [s \in Streams |-> Unstamped]
    /\ parts = [s \in Streams |-> <<>>]
    /\ exit = [s \in Streams |-> "running"]
    /\ prev = [s \in Streams |-> {}]
    /\ cpc = "check"
    /\ count = 0
    /\ seen = 0
    /\ msg = ""
    /\ rpc = [r \in Requests |-> "idle"]
    /\ data = [r \in Requests |-> EmptyDict]
    /\ resp = [r \in Requests |-> EmptyDict]

Init ==
    /\ current_video_source = "webcam"
    /\ detection_history \in {<<>>, PastHistory}
    /\ tracker = IF detection_history = <<>> THEN {} ELSE {0}
    /\ boxes = <<0, 1, 0>>
    /\ limit = SelectFrames
    /\ InitLocals

\* ------------------------------------------------------ generate_frames
\* Mutant of Finally: the handle is not released.
FinallyNoRelease(c) == c

\* finally: cap.release()
Finally(c) == [c EXCEPT !.released = TRUE]

Terminate(s, why) ==
    /\ pc' = [pc EXCEPT ![s] = "done"]
    /\ cap' = [cap EXCEPT ![s] = Finally(cap[s])]
    /\ exit' = [exit EXCEPT ![s] = why]

Open(s, target) ==
    \E ok \in BOOLEAN :
        /\ cap' = [cap EXCEPT ![s] = VideoCapture(target, ok)]
        /\ pc' = [pc EXCEPT ![s] = "loop"]

\* get_video_source: if current_video_source == 'webcam'.  prev remembers the
\* streams that had ended when this one started.
GetSourceWebcam(s) ==
    /\ pc[s] = "start"
    /\ prev' = [prev EXCEPT ![s] = {t \in Streams : pc[t] = "done"}]
    /\ IF current_video_source = "webcam"
       THEN Open(s, Camera)
       ELSE pc' = [pc EXCEPT ![s] = "elif"] /\ cap' = cap
    /\ UNCHANGED <<current_video_source, detection_history, now, tracker,
                   boxes, limit,
                   frame, results, current_count, timestamp, parts, exit,
                   cvars, rvars>>

\* get_video_source: elif current_video_source == 'rtsp'
GetSourceRtsp(s) ==
    /\ pc[s] = "elif"
    /\ IF current_video_source = "rtsp"
       THEN Open(s, RtspUrl)
       ELSE pc' = [pc EXCEPT ![s] = "else"] /\ cap' = cap
    /\ UNCHANGED <<current_video_source, detection_history, now, tracker,
                   boxes, limit,
                   frame, results, current_count, timestamp, parts, exit, prev,
                   cvars, rvars>>

\* get_video_source: else, the selection is a file name
GetSourceFile(s) ==
    /\ pc[s] = "else"
    /\ Open(s, PathJoin(current_video_source))
    /\ UNCHANGED <<current_video_source, detection_history, now, tracker,
                   boxes, limit,
                   frame, results, current_count, timestamp, parts, exit, prev,
                   cvars, rvars>>

\* Mutant of LoopRead: the source is chosen again from the current selection
\* at every iteration.
LoopReadReopen(s) ==
    /\ pc[s] = "loop"
    /\ LET target == IF current_video_source = "webcam" THEN Camera
                     ELSE IF current_video_source = "rtsp" THEN RtspUrl
                     ELSE PathJoin(current_video_source)
       IN IF ~cap[s].opened
          THEN Terminate(s, "unopened") /\ frame' = frame
          ELSE \E success \in BOOLEAN :
                 IF success /\ cap[s].pos < limit
                 THEN /\ cap' = [cap EXCEPT ![s].pos = @ + 1,
                                            ![s].target = target]
                      /\ frame' = [frame EXCEPT ![s] = cap[s].pos + 1]
                      /\ pc' = [pc EXCEPT ![s] = "track"]
                      /\ exit' = exit
                 ELSE Terminate(s, "readfail") /\ frame' = frame
    /\ UNCHANGED <<current_video_source, detection_history, now, tracker,
                   boxes, limit,
                   results, current_count, timestamp, parts, prev, cvars, rvars>>

\* Mutant of LoopRead: a failed read skips the frame instead of ending the loop.
LoopReadSkip(s) ==
    /\ pc[s] = "loop"
    /\ IF ~cap[s].opened
       THEN Terminate(s, "unopened") /\ frame' = frame
       ELSE \E success \in BOOLEAN :
              IF success /\ cap[s].pos < limit
              THEN /\ cap' = [cap EXCEPT ![s].pos = @ + 1]
                   /\ frame' = [frame EXCEPT ![s] = cap[s].pos + 1]
                   /\ pc' = [pc EXCEPT ![s] = "track"]
                   /\ exit' = exit
              ELSE IF cap[s].pos < limit
                   THEN /\ cap' = [cap EXCEPT ![s].pos = @ + 1]
                        /\ UNCHANGED <<frame, pc, exit>>
                   ELSE Terminate(s, "readfail") /\ frame' = frame
    /\ UNCHANGED <<current_video_source, detection_history, now, tracker,
                   boxes, limit,
                   results, current_count, timestamp, parts, prev, cvars, rvars>>

\* while cap.isOpened(): success, frame = cap.read(); if not success: break
LoopRead(s) ==
    /\ pc[s] = "loop"
    /\ IF ~cap[s].opened
       THEN Terminate(s, "unopened") /\ frame' = frame
       ELSE \E success \in BOOLEAN :
              IF success /\ cap[s].pos < limit
              THEN /\ cap' = [cap EXCEPT ![s].pos = @ + 1]
                   /\ frame' = [frame EXCEPT ![s] = cap[s].pos + 1]
                   /\ pc' = [pc EXCEPT ![s] = "track"]
                   /\ exit' = exit
              ELSE Terminate(s, "readfail") /\ frame' = frame
    /\ UNCHANGED <<current_video_source, detection_history, now, tracker,
                   boxes, limit,
                   results, current_count, timestamp, parts, prev, cvars, rvars>>

\* process_frame: enhance_contrast, model.track(persist=True), the count.
\* The tracker of the process-wide model keeps the tracks of every stream that
\* called it; results remembers the tracks it held before this call.  The
\* second disjunct is an exception raised by enhance_contrast or model.track,
\* which leaves generate_frames through its finally clause.
Track(s) ==
    /\ pc[s] = "track"
    /\ \/ /\ results' = [results EXCEPT
                           ![s] = [boxes |-> Detect(frame[s]), prior |-> tracker]]
          /\ tracker' = tracker \cup {s}
          /\ current_count' = [current_count EXCEPT
                                 ![s] = CountBags(Detect(frame[s]))]
          /\ pc' = [pc EXCEPT ![s] = "stamp"]
          /\ UNCHANGED <<cap, exit>>
       \/ /\ Terminate(s, "exception")
          /\ UNCHANGED <<results, tracker, current_count>>
    /\ UNCHANGED <<current_video_source, detection_history, now, boxes, limit,
                   frame, timestamp, parts, prev, cvars, rvars>>

\* process_frame: timestamp = time.time().  Every reading of the clock is
\* later than the one before it.
Stamp(s) ==
    /\ pc[s] = "stamp"
    /\ timestamp' = [timestamp EXCEPT ![s] = now]
    /\ now' = now + 1
    /\ pc' = [pc EXCEPT ![s] = "append"]
    /\ UNCHANGED <<current_video_source, detection_history, tracker, boxes, limit,
                   cap, frame, results, current_count, parts, exit, prev,
                   cvars, rvars>>

\* process_frame: detection_history.append((timestamp, current_count))
AppendSample(s) ==
    /\ pc[s] = "append"
    /\ detection_history' =
           Append(detection_history, <<timestamp[s], current_count[s]>>)
    /\ pc' = [pc EXCEPT ![s] = "if_len"]
    /\ UNCHANGED <<current_video_source, now, tracker, boxes, limit,
                   cap, frame, results, current_count, timestamp, parts, exit,
                   prev, cvars, rvars>>

\* The rest of the iteration: plot, putText, imencode and the yield of the part.
Yield(s) ==
    /\ parts' = [parts EXCEPT
                   ![s] = Append(@, [frame |-> frame[s],
                                     text |-> Overlay(current_count[s])])]
    /\ pc' = [pc EXCEPT ![s] = "yield"]

\* process_frame: if len(detection_history) > 100
EvictTest(s) ==
    /\ pc[s] = "if_len"
    /\ IF Len(detection_history) > HistoryCap
       THEN pc' = [pc EXCEPT ![s] = "pop"] /\ parts' = parts
       ELSE Yield(s)
    /\ UNCHANGED <<current_video_source, detection_history, now, tracker,
                   boxes, limit,
                   cap, frame, results, current_count, timestamp, exit, prev,
                   cvars, rvars>>

\* Mutant of EvictPop: pop() removes the newest sample, not the oldest.
EvictPopNewest(s) ==
    /\ pc[s] = "pop"
    /\ detection_history' =
           SubSeq(detection_history, 1, Len(detection_history) - 1)
    /\ Yield(s)
    /\ UNCHANGED <<current_video_source, now, tracker, boxes, limit,
                   cap, frame, results, current_count, timestamp, exit, prev,
                   cvars, rvars>>

\* process_frame: detection_history.pop(0)
EvictPop(s) ==
    /\ pc[s] = "pop"
    /\ detection_history' = Tail(detection_history)
    /\ Yield(s)
    /\ UNCHANGED <<current_video_source, now, tracker, boxes, limit,
                   cap, frame, results, current_count, timestamp, exit, prev,
                   cvars, rvars>>

\* The server asks the generator for the next part.
Resume(s) ==
    /\ pc[s] = "yield"
    /\ pc' = [pc EXCEPT ![s] = "loop"]
    /\ UNCHANGED <<current_video_source, detection_history, now, tracker,
                   boxes, limit,
                   cap, frame, results, current_count, timestamp, parts, exit,
                   prev, cvars, rvars>>

\* The client went away: the server closes the generator, GeneratorExit is
\* raised at the yield and the finally clause runs.
Disconnect(s) ==
    /\ pc[s] = "yield"
    /\ Terminate(s, "disconnect")
    /\ UNCHANGED <<current_video_source, detection_history, now, tracker,
                   boxes, limit,
                   frame, results, current_count, timestamp, parts, prev,
                   cvars, rvars>>

\* ------------------------------------------------------- count_updates
Latest(h) == IF h = <<>> THEN 0 ELSE h[Len(h)][2]

\* generate_counts: if detection_history: ... else: (count is the literal 0).
\* seen remembers the latest count of the history at the reading that decides
\* the message.
CountTest ==
    /\ cpc = "check"
    /\ seen' = Latest(detection_history)
    /\ IF detection_history # <<>>
       THEN cpc' = "index" /\ count' = count
       ELSE cpc' = "emit" /\ count' = 0
    /\ UNCHANGED <<current_video_source, detection_history, now, tracker,
                   boxes, limit,
                   svars, msg, rvars>>

\* Mutant of CountIndex: detection_history[0], the oldest sample.
CountIndexOldest ==
    /\ cpc = "index"
    /\ IF detection_history = <<>>
       THEN cpc' = "IndexError" /\ UNCHANGED <<count, seen>>
       ELSE /\ count' = detection_history[1][2]
            /\ seen' = Latest(detection_history)
            /\ cpc' = "emit"
    /\ UNCHANGED <<current_video_source, detection_history, now, tracker,
                   boxes, limit,
                   svars, msg, rvars>>

\* generate_counts: _, count = detection_history[-1]
CountIndex ==
    /\ cpc = "index"
    /\ IF detection_history = <<>>
       THEN cpc' = "IndexError" /\ UNCHANGED <<count, seen>>
       ELSE /\ count' = detection_history[Len(detection_history)][2]
            /\ seen' = Latest(detection_history)
            /\ cpc' = "emit"
    /\ UNCHANGED <<current_video_source, detection_history, now, tracker,
                   boxes, limit,
                   svars, msg, rvars>>

\* generate_counts: yield f"data: {count}\n\n"; time.sleep(0.5)
CountEmit ==
    /\ cpc = "emit"
    /\ msg' = Message(count)
    /\ cpc' = "check"
    /\ UNCHANGED <<current_video_source, detection_history, now, tracker,
                   boxes, limit,
                   svars, count, seen, rvars>>

\* ------------------------------------------------------- change_source
Bodies == {[k \in {"source"} |-> v] : v \in Sources} \cup {EmptyDict}

\* data = request.get_json(); current_video_source = data.get('source', 'webcam')
ChangeAssign(r) ==
    /\ rpc[r] = "idle"
    /\ \E d \in Bodies :
        /\ data' = [data EXCEPT ![r] = d]
        /\ current_video_source' = Get(d)
    /\ rpc' = [rpc EXCEPT ![r] = "jsonify"]
    /\ UNCHANGED <<detection_history, now, tracker, boxes, limit,
                   svars, cvars, resp>>

\* return jsonify({'success': True, 'source': current_video_source})
ChangeRespond(r) ==
    /\ rpc[r] = "jsonify"
    /\ resp' = [resp EXCEPT ![r] = [k \in {"success", "source"} |->
                   IF k = "success" THEN "true" ELSE current_video_source]]
    /\ rpc' = [rpc EXCEPT ![r] = "done"]
    /\ UNCHANGED <<current_video_source, detection_history, now, tracker,
                   boxes, limit,
                   svars, cvars, data>>

\* ------------------------------------------------------------------ Next
\* One step of the video stream s.
StreamStep(s) ==
    \/ GetSourceWebcam(s)
    \/ GetSourceRtsp(s)
    \/ GetSourceFile(s)
    \/ LoopRead(s)
    \/ Track(s)
    \/ Stamp(s)
    \/ AppendSample(s)
    \/ EvictTest(s)
    \/ EvictPop(s)
    \/ Resume(s)
    \/ Disconnect(s)

\* Video streams and change_source requests, one thread each.
Next ==
    \/ \E s \in Streams : StreamStep(s)
    \/ \E r \in Requests : ChangeAssign(r)
    \/ \E r \in Requests : ChangeRespond(r)

Spec == Init /\ [][Next]_vars

\* Video streams and one count-update stream; the selection is any of Sources.
InitFeeds ==
    /\ current_video_source \in Sources
    /\ detection_history \in {<<>>, PastHistory}
    /\ tracker = IF detection_history = <<>> THEN {} ELSE {0}
    /\ boxes = <<0, 1, 0>>
    /\ limit = MaxFrames
    /\ InitLocals

NextFeeds ==
    \/ \E s \in Streams : StreamStep(s)
    \/ CountTest
    \/ CountIndex
    \/ CountEmit

SpecFeeds == InitFeeds /\ [][NextFeeds]_vars

\* One video stream reading a long source, from an empty history.
InitSingle ==
    /\ current_video_source = "sample.mp4"
    /\ detection_history = <<>>
    /\ tracker = {}
    /\ boxes = <<0, 1, 0>>
    /\ limit = LongFrames
    /\ InitLocals

NextSingle == StreamStep(1)

SpecSingle == InitSingle /\ [][NextSingle]_vars

\* One video stream whose detector returns any list of at most MaxBoxes boxes.
RECURSIVE SeqsUpTo(_)
SeqsUpTo(n) ==
    IF n = 0 THEN {<<>>}
    ELSE SeqsUpTo(n - 1) \cup [1..n -> ClassIds]

InitCount ==
    /\ current_video_source \in Sources
    /\ detection_history \in {<<>>, PastHistory}
    /\ tracker = IF detection_history = <<>> THEN {} ELSE {0}
    /\ boxes \in SeqsUpTo(MaxBoxes)
    /\ limit = MaxFrames
    /\ InitLocals

NextCount == StreamStep(1)

SpecCount == InitCount /\ [][NextCount]_vars

\* ----------------------------------------------------------------- claims
Min(a, b) == IF a < b THEN a ELSE b

\* The steps of process_frame after the count of the frame is taken.
Counted == {"stamp", "append", "if_len", "pop", "yield"}

\* C1: in every reachable state detection_history holds at most 100 samples,
\* also between the append and the eviction of process_frame.
C1_HistoryAtMostCap == Len(detection_history) <= HistoryCap

\* The sample process_frame records for frame i of the single stream, which is
\* stamped by the i-th reading of the clock.
SampleOf(i) == <<i - 1, CountBags(Detect(i))>>

LastSamples(n) ==
    [k \in 1..Min(n, HistoryCap) |-> SampleOf(n - Min(n, HistoryCap) + k)]

\* C2: from an empty history, once a single stream has completed process_frame
\* on N frames the history is exactly the samples of the last min(N, 100)
\* frames, oldest first.
C2_HistoryIsLastFrames ==
    pc[1] \notin {"if_len", "pop"} =>
        detection_history = LastSamples(Len(parts[1]))

C2_Witness ==
    /\ pc[1] = "loop"
    /\ Len(parts[1]) > HistoryCap + 1
    /\ detection_history[1] = SampleOf(Len(parts[1]) - HistoryCap + 1)

\* C3: once a stream has opened its frame source, no step (of a change_source
\* request or of anything else) changes the source the stream reads from, and
\* the stream never goes back to reading the selection.
C3_SelectionLatched ==
    [][\A s \in Streams :
          pc[s] \notin {"start", "elif", "else"} =>
              /\ cap'[s].target = cap[s].target
              /\ pc'[s] \notin {"start", "elif", "else"}]_vars

C3_Witness ==
    \E s \in Streams :
        /\ pc[s] = "yield"
        /\ cap[s].target = Camera
        /\ current_video_source = "sample.mp4"
        /\ \E r \in Requests : rpc[r] = "done"

\* C4: the response of a change_source request that carried the source s
\* echoes s, whatever other change_source requests run at the same time.
C4_EchoesRequested ==
    \A r \in Requests :
        (rpc[r] = "done" /\ "source" \in DOMAIN data[r]) =>
            resp[r]["source"] = data[r]["source"]

\* C5: a stream's handle is released exactly when the stream has terminated:
\* every terminated stream has released it, and no running stream has.
C5_ReleasedExactlyAtTermination ==
    \A s \in Streams : cap[s].released <=> pc[s] = "done"

C5_Witness ==
    \E s, t \in Streams :
        /\ exit[s] = "exception" /\ cap[s].opened /\ cap[s].released
        /\ exit[t] = "disconnect" /\ cap[t].opened /\ cap[t].released

\* C6: a message of the count-update stream carries the count of the most
\* recent sample of the history at the moment it is emitted, or 0 when the
\* history is empty at that moment.
C6_MessageIsLatestAtEmission ==
    cpc = "emit" => count = Latest(detection_history)

\* C6, amended: a message carries the count of the sample that was the most
\* recent one when the stream read the history for that message (0 when the
\* history was empty at that reading), and the stream never fails.
C6_MessageIsLatestAtRead ==
    /\ cpc = "emit" => count = seen
    /\ (cpc = "check" /\ msg # "") => msg = Message(seen)
    /\ cpc # "IndexError"

C6_Witness ==
    /\ msg = Message(0)
    /\ cpc = "emit"
    /\ count = 2
    /\ Len(detection_history) = HistoryCap

\* C7: the first frame of a stream opened after a stream of another source
\* has ended is tracked without the tracks of that earlier stream.
C7_FreshTrackerAfterReopen ==
    \A s \in Streams :
        frame[s] = 1 =>
            \A p \in prev[s] :
                cap[p].target # cap[s].target => p \notin results[s].prior

\* The number of boxes of the target class among bs.
TargetBoxes(bs) ==
    Cardinality({i \in 1..Len(bs) : bs[i] = gunny_bag_class_id})

\* C8: the count taken for a frame, the count of the sample recorded for it
\* and the count written on it are the number of boxes of class 0 the
\* detector returned for it.
C8_CountIsTargetClassBoxes ==
    \A s \in Streams :
        LET n == TargetBoxes(results[s].boxes) IN
            /\ pc[s] \in Counted => current_count[s] = n
            /\ pc[s] \in {"if_len", "pop"} =>
                   detection_history[Len(detection_history)] = <<timestamp[s], n>>
            /\ pc[s] = "yield" =>
                   parts[s][Len(parts[s])].text = Overlay(n)

C8_Witness ==
    /\ pc[1] = "yield"
    /\ Len(results[1].boxes) = MaxBoxes
    /\ current_count[1] = 2
    /\ parts[1][1].text = "Gunny Bags: 2"

\* C9: the timestamps of detection_history never decrease from the oldest
\* sample to the newest.
C9_Chronological ==
    \A i \in 1..(Len(detection_history) - 1) :
        detection_history[i][1] <= detection_history[i + 1][1]

\* Parts are emitted in the order the frames were read, none skipped.
InOrder(s) == \A i \in 1..Len(parts[s]) : parts[s][i].frame = i

\* C10: a stream has emitted one part for every frame it read, in the order
\* read, whenever it is between two frames and when it has ended.
C10_OnePartPerFrameRead ==
    \A s \in Streams :
        pc[s] \in {"loop", "done"} =>
            InOrder(s) /\ Len(parts[s]) = cap[s].pos

\* C10, amended: the parts are those of the frames read, in order, except
\* that the frame whose processing raised has none; a terminated stream reads
\* and emits nothing more; a stream whose source did not open has read no
\* frame, emitted no part and recorded no sample.
C10_PartsAreFramesProcessed ==
    [][\A s \in Streams :
          /\ InOrder(s)'
          /\ pc'[s] = "loop" => Len(parts'[s]) = cap'[s].pos
          /\ pc'[s] = "done" =>
                Len(parts'[s]) =
                    cap'[s].pos - (IF exit'[s] = "exception" THEN 1 ELSE 0)
          /\ (pc'[s] = "done" /\ ~cap'[s].opened) =>
                parts'[s] = <<>> /\ cap'[s].pos = 0 /\ timestamp'[s] = Unstamped
          /\ pc[s] = "done" =>
                pc'[s] = "done" /\ parts'[s] = parts[s] /\ cap'[s] = cap[s]]_vars

C10_Witness ==
    \E s, t \in Streams :
        /\ exit[s] = "exception" /\ cap[s].pos = Len(parts[s]) + 1
        /\ exit[t] = "readfail" /\ Len(parts[t]) = cap[t].pos /\ cap[t].pos > 0

====
